---- MODULE Spec2Model ----
(***************************************************************************)
(* Verification model of the SEA-AI/yolov5 horizon/detection extensions:   *)
(*   - greedy non-maximum suppression (horizon/yolotrt/postprocessing.py)  *)
(*   - assembly and forward execution of the layer graph                   *)
(*     (models/custom.py, horizon/models.py)                               *)
(*   - box geometry (horizon/yolotrt/postprocessing.py)                    *)
(*   - AHOYv5 entry points and presentation (hybrids/inference/ahoy.py)    *)
(*   - the DAN ensemble and the AHOY forward hooks (models/custom.py)      *)
(* Box coordinates are small integers, which float32 represents exactly;   *)
(* an IoU is kept as the pair (inter, union) and compared with a rational  *)
(* threshold by cross-multiplication.                                      *)
(***************************************************************************)
EXTENDS Integers, Sequences, FiniteSets, TLC

VARIABLES
    \* ---- nms(bboxes, scores, iou_thresh, classes) ----
    bboxes,      \* sequence of <<x1, y1, x2, y2>>
    scores,      \* sequence of confidence scores
    iou_thresh,  \* <<numerator, denominator>>
    classes,     \* [given |-> BOOLEAN, arr |-> sequence of class ids]
    order,       \* candidate order (1-based box indices)
    keep,        \* keep mask
    removed_by,  \* per box: 0, or the box selected in the round that dropped it
    rounds,      \* number of loop iterations executed
    nms_pc,      \* "call" | "loop" | "done" | "ValueError" | "off"
    \* ---- model assembly and forward execution ----
    args,        \* constructor arguments: class, weights, cutoff, task
    loaded,      \* the object attempt_load returned: [model, save]
    net,         \* the constructed module: model, save, cutoff, task
    asm_pc,      \* "new" | "built" | the exception __init__ raised | "off"
    calls,       \* per caller: the frame of its forward call
    \* ---- box geometry: cxcywh_to_xyxy, xyxy_to_xywh, scale_boxes ----
    g_op,        \* "roundtrip" | "scale" | "clip"
    g_in,        \* the box array passed in
    g_box,       \* the box array as the functions leave it
    g_from,      \* from_shape (height, width)
    g_to,        \* to_shape (height, width)
    g_pc,        \* "start" | "xyxy" | "done" | "off"
    \* ---- AHOYv5 inference entry points and presentation ----
    v5_args,     \* entry point, batch, output_mode, whether asserts run
    cls_map,     \* "None" | "empty" | "map"
    dets,        \* per image: rows [box, score, cls]
    v5_out,      \* what the entry point returned
    stages,      \* pipeline stages entered so far
    presented,   \* output modes to_mode was asked for, in order
    v5_pc,       \* "enter" | "call" | "present" | "done" | exception | "off"
    \* ---- DAN ensemble ----
    model_a,     \* [device, fp16]
    model_b,     \* [device, fp16]
    dan,         \* the attributes DAN.__init__ has set
    dan_pc,      \* "new" | "built" | "ValueError" | "off"
    \* ---- AHOY forward hooks ----
    ah_fp16,     \* module.fp16
    ah_hooks,    \* self.hooks: set of [key, id]
    ah_attached, \* hooks attached to the module: set of [kind, id]
    ah_next,     \* id the next hook handle gets
    ah_fwd,      \* the last forward: how the input was scaled, the output
    ah_pc        \* "new" | the method that ran last | "off"

nmsVars == <<bboxes, scores, iou_thresh, classes, order, keep, removed_by,
             rounds, nms_pc>>

execVars == <<args, loaded, net, asm_pc, calls>>

geoVars == <<g_op, g_in, g_box, g_from, g_to, g_pc>>

v5Vars == <<v5_args, cls_map, dets, v5_out, stages, presented, v5_pc>>

danVars == <<model_a, model_b, dan, dan_pc>>

ahoyVars == <<ah_fp16, ah_hooks, ah_attached, ah_next, ah_fwd, ah_pc>>

vars == <<nmsVars, execVars, geoVars, v5Vars, danVars, ahoyVars>>

----------------------------------------------------------------------------
(* Bounds of the nms inputs *)
MaxBoxes == 3
MaxCoord == 1
MaxScore == 2

Max(a, b) == IF a >= b THEN a ELSE b
Min(a, b) == IF a <= b THEN a ELSE b

\* corner-form boxes with the top edge at y = 0
BoxSet == {b \in (0..MaxCoord) \X {0} \X (0..MaxCoord) \X (0..MaxCoord) :
             b[1] <= b[3]}

ThreshSet == {<<1, 4>>, <<1, 2>>}

NoClasses == [given |-> FALSE, arr |-> <<>>]

\* class arrays tried for a batch of n boxes: none, all equal, alternating
ClassChoices(n) ==
    {NoClasses,
     [given |-> TRUE, arr |-> [k \in 1..n |-> 0]],
     [given |-> TRUE, arr |-> [k \in 1..n |-> k % 2]]}

----------------------------------------------------------------------------
(* postprocessing.py: intersection_box / intersection_area / iou *)

intersection_box(target_box, box) ==
    <<Max(target_box[1], box[1]), Max(target_box[2], box[2]),
      Min(target_box[3], box[3]), Min(target_box[4], box[4])>>

intersection_area(target_box, box) ==
    LET ib == intersection_box(target_box, box)
        w  == Max(0, ib[3] - ib[1] + 1)
        h  == Max(0, ib[4] - ib[2] + 1)
    IN  w * h

\* the quotient inter / union, kept as a pair; union = 0 stands for the
\* epsilon 1e-7 that line 195 adds to a zero union
iou(target_box, box, target_area, area) ==
    LET inter == intersection_area(target_box, box)
    IN  [inter |-> inter, union |-> target_area + area - inter]

\* ovr <= iou_thresh (line 234), for 0 <= iou_thresh <= 1
OvrLeq(ovr, th) ==
    IF ovr.union > 0 THEN ovr.inter * th[2] <= th[1] * ovr.union
    ELSE IF ovr.union = 0 THEN ovr.inter = 0
    ELSE TRUE

\* areas = (x2 - x1) * (y2 - y1)   (line 220)
areas(b) == (b[3] - b[1]) * (b[4] - b[2])

\* np.argsort(scores)[::-1]: any index order with non-increasing scores
\* (the order among equal scores depends on the sort the build selects)
DescendingOrders(s) ==
    LET n == Len(s)
    IN  {p \in [1..n -> 1..n] :
           /\ \A a, b \in 1..n : a # b => p[a] # p[b]
           /\ \A a, b \in 1..n : a < b => s[p[a]] >= s[p[b]]}

\* truth value of `if classes:` (line 236): None is false, an array of more
\* than one element raises ValueError
ClassesTruth(c) ==
    IF ~c.given THEN "false"
    ELSE IF Len(c.arr) > 1 THEN "ValueError"
    ELSE IF Len(c.arr) = 0 THEN "false"
    ELSE IF c.arr[1] # 0 THEN "true" ELSE "false"

RECURSIVE SelectSeq2(_, _, _)
\* the subsequence of s at the positions k (counted from `from`) in idxs
SelectSeq2(s, idxs, k) ==
    IF s = <<>> THEN <<>>
    ELSE IF k \in idxs THEN <<Head(s)>> \o SelectSeq2(Tail(s), idxs, k + 1)
    ELSE SelectSeq2(Tail(s), idxs, k + 1)

\* variant: order[idxs], without the + 1 that steps over the selected box
NextOrder_no_shift(ord, withClasses) ==
    LET i    == ord[1]
        rest == Tail(ord)
        ovr(k) == iou(bboxes[i], bboxes[rest[k]],
                      areas(bboxes[i]), areas(bboxes[rest[k]]))
        idxs == {k \in 1..Len(rest) : OvrLeq(ovr(k), iou_thresh)}
        diff == {k \in 1..Len(rest) : classes.arr[rest[k]] # classes.arr[i]}
        all  == IF withClasses THEN idxs \cup diff ELSE idxs
    IN  SelectSeq2(ord, all, 1)

\* lines 231-241: the candidate order after the round that selects order[0]
NextOrder(ord, withClasses) ==
    LET i    == ord[1]
        rest == Tail(ord)
        ovr(k) == iou(bboxes[i], bboxes[rest[k]],
                      areas(bboxes[i]), areas(bboxes[rest[k]]))
        idxs == {k \in 1..Len(rest) : OvrLeq(ovr(k), iou_thresh)}
        diff == {k \in 1..Len(rest) : classes.arr[rest[k]] # classes.arr[i]}
        all  == IF withClasses THEN idxs \cup diff ELSE idxs
    IN  SelectSeq2(rest, all, 1)

SeqToSet(s) == {s[k] : k \in 1..Len(s)}

----------------------------------------------------------------------------
(* nms as a state machine: entry, one loop iteration, return *)

NmsOff ==
    /\ bboxes = <<>> /\ scores = <<>> /\ iou_thresh = <<1, 2>>
    /\ classes = NoClasses /\ order = <<>> /\ keep = <<>>
    /\ removed_by = <<>> /\ rounds = 0 /\ nms_pc = "off"

NmsInit ==
    /\ \E n \in 0..MaxBoxes :
         /\ bboxes \in [1..n -> BoxSet]
         /\ scores \in [1..n -> 1..MaxScore]
         /\ classes \in ClassChoices(n)
    /\ iou_thresh \in ThreshSet
    /\ order = <<>>
    /\ keep = <<>>
    /\ removed_by = <<>>
    /\ rounds = 0
    /\ nms_pc = "call"

\* lines 216-223
nms_begin ==
    /\ nms_pc = "call"
    /\ order' \in DescendingOrders(scores)
    /\ keep' = [k \in 1..Len(scores) |-> FALSE]
    /\ removed_by' = [k \in 1..Len(scores) |-> 0]
    /\ nms_pc' = "loop"
    /\ UNCHANGED <<bboxes, scores, iou_thresh, classes, rounds>>
    /\ UNCHANGED <<execVars, geoVars, v5Vars, danVars, ahoyVars>>

\* lines 225-241
nms_round ==
    /\ nms_pc = "loop"
    /\ Len(order) > 1
    /\ LET i  == order[1]
           ct == ClassesTruth(classes)
       IN  /\ keep' = [keep EXCEPT ![i] = TRUE]
           /\ rounds' = rounds + 1
           /\ IF ct = "ValueError"
              THEN /\ nms_pc' = "ValueError"
                   /\ UNCHANGED <<order, removed_by>>
              ELSE LET nxt == NextOrder(order, ct = "true")
                   IN  /\ order' = nxt
                       /\ removed_by' =
                            [k \in 1..Len(scores) |->
                               IF k \in SeqToSet(Tail(order)) \ SeqToSet(nxt)
                               THEN i ELSE removed_by[k]]
                       /\ nms_pc' = "loop"
    /\ UNCHANGED <<bboxes, scores, iou_thresh, classes>>
    /\ UNCHANGED <<execVars, geoVars, v5Vars, danVars, ahoyVars>>

\* line 243
nms_return ==
    /\ nms_pc = "loop"
    /\ Len(order) <= 1
    /\ nms_pc' = "done"
    /\ UNCHANGED <<bboxes, scores, iou_thresh, classes, order, keep,
                   removed_by, rounds>>
    /\ UNCHANGED <<execVars, geoVars, v5Vars, danVars, ahoyVars>>

NmsNext == nms_begin \/ nms_round \/ nms_return



----------------------------------------------------------------------------
(* Rational arithmetic for coordinates: [n, d] with d > 0, in lowest terms *)

Abs(a) == IF a < 0 THEN 0 - a ELSE a

RECURSIVE GCD(_, _)
GCD(a, b) == IF b = 0 THEN a ELSE GCD(b, a % b)

Rat(n, d) ==
    LET g == GCD(Abs(n), Abs(d))
        sg == IF d < 0 THEN 0 - 1 ELSE 1
    IN  [n |-> (sg * n) \div g, d |-> (sg * d) \div g]

RInt(a) == [n |-> a, d |-> 1]
RAdd(a, b) == Rat(a.n * b.d + b.n * a.d, a.d * b.d)
RSub(a, b) == Rat(a.n * b.d - b.n * a.d, a.d * b.d)
RMul(a, b) == Rat(a.n * b.n, a.d * b.d)
RDiv(a, b) == Rat(a.n * b.d, a.d * b.n)
RLeq(a, b) == a.n * b.d <= b.n * a.d
RMin(a, b) == IF RLeq(a, b) THEN a ELSE b
RMax(a, b) == IF RLeq(a, b) THEN b ELSE a

----------------------------------------------------------------------------
(* postprocessing.py: box conversions, scale_boxes, clip_boxes.
   A box array is a sequence of rows of four coordinates; every function
   works row by row. *)

MaxPix == 2
MaxDim == 2

cxcywh_to_xyxy(arr) ==
    LET row(b) == <<RSub(b[1], RDiv(b[3], RInt(2))),
                    RSub(b[2], RDiv(b[4], RInt(2))),
                    RAdd(b[1], RDiv(b[3], RInt(2))),
                    RAdd(b[2], RDiv(b[4], RInt(2)))>>
    IN  [r \in 1..Len(arr) |-> row(arr[r])]

xyxy_to_xywh(arr) ==
    LET row(b) == <<b[1], b[2], RSub(b[3], b[1]), RSub(b[4], b[2])>>
    IN  [r \in 1..Len(arr) |-> row(arr[r])]

\* a.clip(lo, hi)
Clip(a, lo, hi) == RMin(RMax(a, lo), hi)

\* variant: x is clipped to the height and y to the width
clip_boxes_swapped(arr, shape) ==
    LET row(b) == <<Clip(b[1], RInt(0), RInt(shape[1])),
                    Clip(b[2], RInt(0), RInt(shape[2])),
                    Clip(b[3], RInt(0), RInt(shape[1])),
                    Clip(b[4], RInt(0), RInt(shape[2]))>>
    IN  [r \in 1..Len(arr) |-> row(arr[r])]

\* shape is (height, width): x is clipped to shape[1], y to shape[0]
clip_boxes(arr, shape) ==
    LET row(b) == <<Clip(b[1], RInt(0), RInt(shape[2])),
                    Clip(b[2], RInt(0), RInt(shape[1])),
                    Clip(b[3], RInt(0), RInt(shape[2])),
                    Clip(b[4], RInt(0), RInt(shape[1]))>>
    IN  [r \in 1..Len(arr) |-> row(arr[r])]

scale_boxes(arr, from_shape, to_shape) ==
    LET gain == RMin(Rat(from_shape[1], to_shape[1]),
                     Rat(from_shape[2], to_shape[2]))
        padx == RDiv(RSub(RInt(from_shape[2]),
                          RMul(RInt(to_shape[2]), gain)), RInt(2))
        pady == RDiv(RSub(RInt(from_shape[1]),
                          RMul(RInt(to_shape[1]), gain)), RInt(2))
        row(b) == <<RDiv(RSub(b[1], padx), gain),
                    RDiv(RSub(b[2], pady), gain),
                    RDiv(RSub(b[3], padx), gain),
                    RDiv(RSub(b[4], pady), gain)>>
    IN  clip_boxes([r \in 1..Len(arr) |-> row(arr[r])], to_shape)

Shapes == (1..MaxDim) \X (1..MaxDim)

RowsOver(S) == {<<RInt(a), RInt(b), RInt(c), RInt(d)>> :
                  a \in S, b \in S, c \in S, d \in S}

\* box arrays of zero rows or one row
ArraysOver(S) == {<<>>} \cup {<<r>> : r \in RowsOver(S)}

GeoOff ==
    /\ g_op = "" /\ g_in = <<>> /\ g_box = <<>>
    /\ g_from = <<1, 1>> /\ g_to = <<1, 1>> /\ g_pc = "off"

GeoInit ==
    /\ g_op \in {"roundtrip", "scale", "clip"}
    /\ g_in \in (IF g_op = "roundtrip" THEN ArraysOver(0..MaxPix)
                 ELSE ArraysOver((0 - 1)..(MaxPix + 1)))
    /\ g_box = g_in
    /\ g_from \in (IF g_op = "scale" THEN Shapes ELSE {<<1, 1>>})
    /\ g_to \in (IF g_op = "roundtrip" THEN {<<1, 1>>} ELSE Shapes)
    /\ g_pc = "start"

geo_cxcywh_to_xyxy ==
    /\ g_pc = "start" /\ g_op = "roundtrip"
    /\ g_box' = cxcywh_to_xyxy(g_box)
    /\ g_pc' = "xyxy"
    /\ UNCHANGED <<g_op, g_in, g_from, g_to>>
    /\ UNCHANGED <<nmsVars, execVars, v5Vars, danVars, ahoyVars>>

geo_xyxy_to_xywh ==
    /\ g_pc = "xyxy"
    /\ g_box' = xyxy_to_xywh(g_box)
    /\ g_pc' = "done"
    /\ UNCHANGED <<g_op, g_in, g_from, g_to>>
    /\ UNCHANGED <<nmsVars, execVars, v5Vars, danVars, ahoyVars>>

geo_scale_boxes ==
    /\ g_pc = "start" /\ g_op = "scale"
    /\ g_box' = scale_boxes(g_box, g_from, g_to)
    /\ g_pc' = "done"
    /\ UNCHANGED <<g_op, g_in, g_from, g_to>>
    /\ UNCHANGED <<nmsVars, execVars, v5Vars, danVars, ahoyVars>>

geo_clip_boxes ==
    /\ g_pc = "start" /\ g_op = "clip"
    /\ g_box' = clip_boxes(g_box, g_to)
    /\ g_pc' = "done"
    /\ UNCHANGED <<g_op, g_in, g_from, g_to>>
    /\ UNCHANGED <<nmsVars, execVars, v5Vars, danVars, ahoyVars>>

GeoNext ==
    \/ geo_cxcywh_to_xyxy
    \/ geo_xyxy_to_xywh
    \/ geo_scale_boxes
    \/ geo_clip_boxes

----------------------------------------------------------------------------
(* hybrids/inference/ahoy.py: AHOYv5.detect / predict / __call__ / to_mode,
   with xyxy_to_xyxyn of postprocessing.py *)

MaxPresent == 2

\* bboxes[:, [0, 2]] /= w; bboxes[:, [1, 3]] /= h, on the array passed in
xyxy_to_xyxyn(arr, shape) ==
    LET row(b) == <<RDiv(b[1], RInt(shape[2])), RDiv(b[2], RInt(shape[1])),
                    RDiv(b[3], RInt(shape[2])), RDiv(b[4], RInt(shape[1]))>>
    IN  [r \in 1..Len(arr) |-> row(arr[r])]

DetRows == {[box |-> <<RInt(0), RInt(0), RInt(a), RInt(b)>>,
             score |-> 1, cls |-> c] :
              a \in 1..MaxPix, b \in 1..MaxPix, c \in 0..1}

\* detections of a batch of no image, or of one image with 0 or 1 rows
DetSets == {<<>>, << <<>> >>} \cup {<< <<r>> >> : r \in DetRows}

ClassNames == <<"boat", "buoy">>

NoOut == [mode |-> "", items |-> <<>>]

\* the detections after the boxes of every image were normalised in place
Normalised(ds, shape) ==
    [n \in 1..Len(ds) |->
       [r \in 1..Len(ds[n]) |->
          [ds[n][r] EXCEPT !.box = xyxy_to_xyxyn(<<@>>, shape)[1]]]]

\* to_tf: boxes normalised and reordered to [y1, x1, y2, x2]
to_tf(ds, shape) ==
    LET nd == Normalised(ds, shape)
    IN  [err |-> "", dets |-> nd,
         out |-> [mode |-> "tf",
                  items |-> [n \in 1..Len(nd) |->
                     [r \in 1..Len(nd[n]) |->
                        [box |-> <<nd[n][r].box[2], nd[n][r].box[1],
                                   nd[n][r].box[4], nd[n][r].box[3]>>,
                         name |-> "", cls |-> nd[n][r].cls,
                         score |-> nd[n][r].score]]]]]

\* variant: the class map is looked at only after the boxes were normalised
to_qa_late_check(ds, shape, cm) ==
    LET nd == Normalised(ds, shape)
    IN  IF cm # "map"
        THEN [err |-> "ValueError", dets |-> nd, out |-> NoOut]
        ELSE [err |-> "", dets |-> nd,
              out |-> [mode |-> "qa",
                       items |-> [n \in 1..Len(nd) |->
                          [r \in 1..Len(nd[n]) |->
                             [box |-> nd[n][r].box,
                              name |-> ClassNames[nd[n][r].cls + 1],
                              cls |-> nd[n][r].cls,
                              score |-> nd[n][r].score]]]]]

\* to_qa: `if not cls_map` raises for None and for an empty mapping
to_qa(ds, shape, cm) ==
    LET nd == Normalised(ds, shape)
    IN  IF cm # "map"
        THEN [err |-> "ValueError", dets |-> ds, out |-> NoOut]
        ELSE [err |-> "", dets |-> nd,
              out |-> [mode |-> "qa",
                       items |-> [n \in 1..Len(nd) |->
                          [r \in 1..Len(nd[n]) |->
                             [box |-> nd[n][r].box,
                              name |-> ClassNames[nd[n][r].cls + 1],
                              cls |-> nd[n][r].cls,
                              score |-> nd[n][r].score]]]]]

\* any other output_mode: (bboxes, scores, classes), views of dets
to_raw(ds) ==
    [err |-> "", dets |-> ds,
     out |-> [mode |-> "raw",
              items |-> [n \in 1..Len(ds) |->
                 [r \in 1..Len(ds[n]) |->
                    [box |-> ds[n][r].box, name |-> "",
                     cls |-> ds[n][r].cls, score |-> ds[n][r].score]]]]]

to_mode(ds, output_mode, shape, cm) ==
    IF output_mode = "tf" THEN to_tf(ds, shape)
    ELSE IF output_mode = "qa" THEN to_qa(ds, shape, cm)
    ELSE to_raw(ds)

OutputModes == {"tf", "qa", "raw"}
ClsMaps == {"None", "empty", "map"}

V5Off ==
    /\ v5_args = [entry |-> "", array |-> TRUE, ndim |-> 4,
                  output_mode |-> "", orig_shape |-> <<1, 1>>,
                  asserts |-> TRUE]
    /\ cls_map = "None" /\ dets = <<>> /\ v5_out = NoOut /\ stages = {}
    /\ presented = <<>> /\ v5_pc = "off"

V5Init ==
    /\ \E e \in {"detect", "predict", "call", "to_mode"} :
         /\ \E arr \in (IF e = "to_mode" THEN {TRUE} ELSE BOOLEAN),
               nd \in (IF e = "to_mode" THEN {4} ELSE 3..5),
               om \in (IF e = "predict" THEN {"qa"}
                       ELSE IF e = "call" THEN {"raw"} ELSE OutputModes),
               sh \in Shapes,
               as \in (IF e \in {"detect", "predict"} THEN BOOLEAN
                       ELSE {TRUE}) :
              v5_args = [entry |-> e, array |-> arr, ndim |-> nd,
                         output_mode |-> om, orig_shape |-> sh,
                         asserts |-> as]
         /\ dets \in (IF e = "to_mode" THEN DetSets ELSE {<<>>})
    /\ cls_map \in ClsMaps
    /\ v5_out = NoOut
    /\ stages = {}
    /\ presented = <<>>
    /\ v5_pc = "enter"

\* detect (and predict, which forwards to it): lines 267-272
v5_detect ==
    /\ v5_pc = "enter"
    /\ v5_args.entry \in {"detect", "predict"}
    /\ v5_pc' = IF ~v5_args.array THEN "ValueError"
                ELSE IF v5_args.asserts /\ v5_args.ndim # 4
                THEN "AssertionError"
                ELSE "call"
    /\ UNCHANGED <<v5_args, cls_map, dets, v5_out, stages, presented>>
    /\ UNCHANGED <<nmsVars, execVars, geoVars, danVars, ahoyVars>>

\* __call__: lines 100-121. The three stages are collaborators; on a batch
\* that is not rank 4 preprocessing is entered and may raise or go on.
v5_call ==
    /\ \/ v5_pc = "call"
       \/ v5_pc = "enter" /\ v5_args.entry = "call"
    /\ IF ~v5_args.array
       THEN \* ims.shape of something that is no array
            /\ v5_pc' = "AttributeError"
            /\ UNCHANGED <<dets, v5_out, stages>>
       ELSE \/ /\ v5_args.ndim # 4
               /\ stages' = {"preprocess"}
               /\ v5_pc' = "PreprocessError"
               /\ UNCHANGED <<dets, v5_out>>
            \/ /\ stages' = {"preprocess", "inference", "postprocess"}
               /\ dets' \in DetSets
               /\ IF v5_args.entry = "call"
                  THEN /\ v5_out' = to_raw(dets').out
                       /\ v5_pc' = "done"
                  ELSE /\ v5_out' = v5_out
                       /\ v5_pc' = "present"
    /\ UNCHANGED <<v5_args, cls_map, presented>>
    /\ UNCHANGED <<nmsVars, execVars, geoVars, danVars, ahoyVars>>

\* to_mode(dets, output_mode, orig_shape, cls_map): from detect, called
\* directly, or called again on the same detections
v5_to_mode ==
    /\ Len(presented) < MaxPresent
    /\ \E om \in OutputModes :
         /\ \/ v5_pc = "present" /\ om = v5_args.output_mode
            \/ v5_pc = "enter" /\ v5_args.entry = "to_mode"
                               /\ om = v5_args.output_mode
            \/ v5_pc \in {"done", "ValueError"} /\ presented # <<>>
         /\ LET res == to_mode(dets, om, v5_args.orig_shape, cls_map)
            IN  /\ dets' = res.dets
                /\ v5_out' = IF res.err = "" THEN res.out ELSE v5_out
                /\ v5_pc' = IF res.err = "" THEN "done" ELSE res.err
         /\ presented' = Append(presented, om)
    /\ UNCHANGED <<v5_args, cls_map, stages>>
    /\ UNCHANGED <<nmsVars, execVars, geoVars, danVars, ahoyVars>>

V5Next == v5_detect \/ v5_call \/ v5_to_mode

NumDevices == 4

Devices == 0..(NumDevices - 1)

Models == [device : Devices, fp16 : BOOLEAN]

\* an ensemble object none of whose attributes is set
Unbuilt == [attrs |-> {}, device |-> 0, fp16 |-> FALSE]

\* variant: only the devices are compared
DAN_device_only(a, b) ==
    IF a.device # b.device
    THEN [err |-> "ValueError", obj |-> Unbuilt]
    ELSE [err |-> "",
          obj |-> [attrs |-> {"device", "fp16", "model_a", "model_b"},
                   device |-> a.device, fp16 |-> a.fp16]]

\* DAN.__init__: the object as the constructor left it, and what it raised
DAN(a, b) ==
    IF a.device # b.device
    THEN [err |-> "ValueError", obj |-> Unbuilt]
    ELSE IF a.fp16 # b.fp16
    THEN [err |-> "ValueError",
          obj |-> [Unbuilt EXCEPT !.attrs = {"device"},
                                  !.device = a.device]]
    ELSE [err |-> "",
          obj |-> [attrs |-> {"device", "fp16", "model_a", "model_b"},
                   device |-> a.device, fp16 |-> a.fp16]]

DanOff ==
    /\ model_a = [device |-> 0, fp16 |-> FALSE]
    /\ model_b = [device |-> 0, fp16 |-> FALSE]
    /\ dan = Unbuilt
    /\ dan_pc = "off"

DanInit ==
    /\ model_a \in Models
    /\ model_b \in Models
    /\ dan = Unbuilt
    /\ dan_pc = "new"

dan_construct ==
    /\ dan_pc = "new"
    /\ LET res == DAN(model_a, model_b)
       IN  /\ dan' = res.obj
           /\ dan_pc' = IF res.err = "" THEN "built" ELSE res.err
    /\ UNCHANGED <<model_a, model_b>>
    /\ UNCHANGED <<nmsVars, execVars, geoVars, v5Vars, ahoyVars>>

DanNext == dan_construct

----------------------------------------------------------------------------
(* models/custom.py: AHOY forward hooks. A hook handle is an id; the module
   calls every attached pre-hook on the inputs before forward and every
   attached forward hook on the outputs after it. *)

MaxHandles == 4

NoFwd == [tensor |-> FALSE, scaled |-> 0,
          out |-> [objects |-> [len |-> 0, first |-> "", rest |-> ""],
                   pitch |-> [dtype |-> "", softmax |-> 0],
                   theta |-> [dtype |-> "", softmax |-> 0]]]

HookState == [hooks |-> ah_hooks, attached |-> ah_attached, next |-> ah_next]

\* variant: the hook is registered even when the key is in the table
Register_unguarded(st, key, kind) ==
    [hooks |-> {h \in st.hooks : h.key # key}
                 \cup {[key |-> key, id |-> st.next]},
     attached |-> st.attached \cup {[kind |-> kind, id |-> st.next]},
     next |-> st.next + 1]

\* register_preprocessing_hook / register_postprocessing_hook
Register(st, key, kind) ==
    IF \E h \in st.hooks : h.key = key THEN st
    ELSE [hooks |-> st.hooks \cup {[key |-> key, id |-> st.next]},
          attached |-> st.attached \cup {[kind |-> kind, id |-> st.next]},
          next |-> st.next + 1]

Precision(fp16) == IF fp16 THEN "half" ELSE "float"

\* (objects, pitch, theta) as forward returns it: objects is a tuple of len
\* tensors, pitch and theta are the logits of the heads
RawOut(fp16, len) ==
    [objects |-> [len |-> len, first |-> Precision(fp16),
                  rest |-> IF len > 1 THEN Precision(fp16) ELSE ""],
     pitch |-> [dtype |-> Precision(fp16), softmax |-> 0],
     theta |-> [dtype |-> Precision(fp16), softmax |-> 0]]

\* _postprocessing_hook(module, inputs, outputs)
_postprocessing_hook(fp16, outputs) ==
    IF ~fp16 THEN outputs
    ELSE [objects |-> [outputs.objects EXCEPT !.first = "float"],
          pitch |-> [dtype |-> "float",
                     softmax |-> outputs.pitch.softmax + 1],
          theta |-> [dtype |-> "float",
                     softmax |-> outputs.theta.softmax + 1]]

RECURSIVE ApplyPost(_, _, _)
ApplyPost(n, fp16, outputs) ==
    IF n = 0 THEN outputs
    ELSE ApplyPost(n - 1, fp16, _postprocessing_hook(fp16, outputs))

Attached(kind) == {a \in ah_attached : a.kind = kind}

AhoyOff ==
    /\ ah_fp16 = FALSE /\ ah_hooks = {} /\ ah_attached = {} /\ ah_next = 0
    /\ ah_fwd = NoFwd /\ ah_pc = "off"

AhoyInit ==
    /\ ah_fp16 \in BOOLEAN
    /\ ah_hooks = {}
    /\ ah_attached = {}
    /\ ah_next = 0
    /\ ah_fwd = NoFwd
    /\ ah_pc = "new"

register_preprocessing_hook ==
    /\ ah_pc # "off"
    /\ ah_next < MaxHandles
    /\ LET st == Register(HookState, "preprocessing", "pre")
       IN  /\ ah_hooks' = st.hooks
           /\ ah_attached' = st.attached
           /\ ah_next' = st.next
    /\ ah_pc' = "register_preprocessing_hook"
    /\ UNCHANGED <<ah_fp16, ah_fwd>>
    /\ UNCHANGED <<nmsVars, execVars, geoVars, v5Vars, danVars>>

register_postprocessing_hook ==
    /\ ah_pc # "off"
    /\ ah_next < MaxHandles
    /\ LET st == Register(HookState, "postprocessing", "post")
       IN  /\ ah_hooks' = st.hooks
           /\ ah_attached' = st.attached
           /\ ah_next' = st.next
    /\ ah_pc' = "register_postprocessing_hook"
    /\ UNCHANGED <<ah_fp16, ah_fwd>>
    /\ UNCHANGED <<nmsVars, execVars, geoVars, v5Vars, danVars>>

register_io_hooks ==
    /\ ah_pc # "off"
    /\ ah_next + 1 < MaxHandles
    /\ LET st == Register(Register(HookState, "preprocessing", "pre"),
                          "postprocessing", "post")
       IN  /\ ah_hooks' = st.hooks
           /\ ah_attached' = st.attached
           /\ ah_next' = st.next
    /\ ah_pc' = "register_io_hooks"
    /\ UNCHANGED <<ah_fp16, ah_fwd>>
    /\ UNCHANGED <<nmsVars, execVars, geoVars, v5Vars, danVars>>

\* every handle of the table is removed from the module, the table cleared
remove_hooks ==
    /\ ah_pc # "off"
    /\ ah_attached' = {a \in ah_attached :
                          ~\E h \in ah_hooks : h.id = a.id}
    /\ ah_hooks' = {}
    /\ ah_pc' = "remove_hooks"
    /\ UNCHANGED <<ah_fp16, ah_next, ah_fwd>>
    /\ UNCHANGED <<nmsVars, execVars, geoVars, v5Vars, danVars>>

\* module(x): pre-hooks (_preprocessing_hook scales a tensor by 1/255),
\* AHOY.forward, forward hooks
ahoy_forward ==
    /\ ah_pc # "off"
    /\ \E tensor \in BOOLEAN, len \in 1..2 :
         ah_fwd' = [tensor |-> tensor,
                    scaled |-> IF tensor THEN Cardinality(Attached("pre"))
                               ELSE 0,
                    out |-> ApplyPost(Cardinality(Attached("post")), ah_fp16,
                                      RawOut(ah_fp16, len))]
    /\ ah_pc' = "forward"
    /\ UNCHANGED <<ah_fp16, ah_hooks, ah_attached, ah_next>>
    /\ UNCHANGED <<nmsVars, execVars, geoVars, v5Vars, danVars>>

AhoyNext ==
    \/ register_preprocessing_hook
    \/ register_postprocessing_hook
    \/ register_io_hooks
    \/ remove_hooks
    \/ ahoy_forward

----------------------------------------------------------------------------
(* Layer graph: nodes, values, loaded artifacts *)

NumInputs == 2
NumCallers == 2

\* m.i is an int position for the nodes parse_model built and a string for
\* the classification heads
IntId(p) == [str |-> "", n |-> p]
StrId(name) == [str |-> name, n |-> 0 - 1]
IsInt(i) == i.str = ""

\* m.f is -1, an int position or a list of positions
FPrev == [int |-> TRUE, v |-> 0 - 1, l |-> <<>>]
FInt(p) == [int |-> TRUE, v |-> p, l |-> <<>>]
FList(l) == [int |-> FALSE, v |-> 0, l |-> l]

Node(p, f, type) == [i |-> IntId(p), f |-> f, type |-> type]

\* tensors are token sequences recording which nodes produced them;
\* None is the empty sequence
None == <<>>
Inputs == {<<200 + n>> : n \in 1..NumInputs}

NodeTok(m) ==
    IF IsInt(m.i) THEN m.i.n
    ELSE IF m.i.str = "c_pitch" THEN 100 ELSE 101

\* m(x): the output of node m on input x
Forward(m, x) == <<NodeTok(m)>> \o x \o <<0 - 4>>

RECURSIVE JoinVals(_)
JoinVals(vs) ==
    IF vs = <<>> THEN <<>>
    ELSE Head(vs) \o <<0 - 2>> \o JoinVals(Tail(vs))

\* a Python list of tensors handed to a node as one input
ListVal(vs) == <<0 - 1>> \o JoinVals(vs) \o <<0 - 3>>

\* artifacts attempt_load can return (node list and save list), small
\* relatives of the YOLOv5 graphs
Artifacts ==
    <<  \* 1: backbone, SPPF at 3, neck, Detect
        [model |-> <<Node(0, FPrev, "Conv"), Node(1, FPrev, "C3"),
                     Node(2, FPrev, "Conv"), Node(3, FPrev, "SPPF"),
                     Node(4, FList(<<0 - 1, 1>>), "Concat"),
                     Node(5, FList(<<4>>), "Detect")>>,
         save |-> {1, 4}],
        \* 2: no SPPF
        [model |-> <<Node(0, FPrev, "Conv"), Node(1, FPrev, "C3"),
                     Node(2, FList(<<0 - 1, 0>>), "Concat"),
                     Node(3, FList(<<2>>), "Detect")>>,
         save |-> {0, 2}],
        \* 3: SPPF is the first node
        [model |-> <<Node(0, FPrev, "SPPF"), Node(1, FPrev, "Conv"),
                     Node(2, FList(<<1>>), "Detect")>>,
         save |-> {1}],
        \* 4: two SPPF nodes
        [model |-> <<Node(0, FPrev, "Conv"), Node(1, FPrev, "SPPF"),
                     Node(2, FPrev, "Conv"), Node(3, FPrev, "SPPF"),
                     Node(4, FList(<<2, 3>>), "Detect")>>,
         save |-> {2, 3}],
        \* 5: a node with a single int back-reference
        [model |-> <<Node(0, FPrev, "Conv"), Node(1, FPrev, "Conv"),
                     Node(2, FPrev, "SPPF"), Node(3, FInt(0), "Conv"),
                     Node(4, FList(<<2, 3>>), "Detect")>>,
         save |-> {0, 2, 3}],
        \* 6: as 5, but the stored save list lacks position 0
        [model |-> <<Node(0, FPrev, "Conv"), Node(1, FPrev, "Conv"),
                     Node(2, FPrev, "SPPF"), Node(3, FInt(0), "Conv"),
                     Node(4, FList(<<2, 3>>), "Detect")>>,
         save |-> {2, 3}] >>

\* largest explicit cutoff argument tried
MaxCutoff == 5

Classes == {"custom.HorizonModel", "custom.Hydra",
            "horizon.HorizonModel", "horizon.MultiTaskModel"}
MultiTask(cls) == cls \in {"custom.Hydra", "horizon.MultiTaskModel"}
Tasks == {"detection", "horizon", "both"}
Callers == 1..NumCallers

NoCutoffArg == [given |-> FALSE, v |-> 0]

----------------------------------------------------------------------------
(* Assembly: _find_cutoff, _get_classification_heads, _from_detection_model,
   _add_classification_heads, __init__ *)

\* variant: the landmark position itself is returned
_find_cutoff_at_landmark(model) ==
    LET ps == {p \in 1..Len(model) : model[p].type = "SPPF"}
    IN  IF ps = {} THEN [ok |-> FALSE, v |-> 0]
        ELSE [ok |-> TRUE,
              v |-> (CHOOSE p \in ps : \A q \in ps : p <= q) - 1]

\* first SPPF position minus one, or ValueError
_find_cutoff(model) ==
    LET ps == {p \in 1..Len(model) : model[p].type = "SPPF"}
    IN  IF ps = {} THEN [ok |-> FALSE, v |-> 0]
        ELSE [ok |-> TRUE,
              v |-> (CHOOSE p \in ps : \A q \in ps : p <= q) - 1 - 1]

\* Python indexing seq[j] with negative wrap-around; ok = FALSE: IndexError
PyIndex(seq, j) ==
    IF j >= 0 /\ j < Len(seq) THEN [ok |-> TRUE, v |-> seq[j + 1]]
    ELSE IF j < 0 /\ 0 - j <= Len(seq)
         THEN [ok |-> TRUE, v |-> seq[Len(seq) + j + 1]]
    ELSE [ok |-> FALSE, v |-> None]

\* Python slice seq[:stop]
PyPrefix(seq, stop) ==
    LET n == IF stop >= 0 THEN Min(stop, Len(seq))
             ELSE Max(0, Len(seq) + stop)
    IN  SubSeq(seq, 1, n)

\* m.conv (Conv) or m.cv1.conv (C3, SPPF) exists
HasInChannels(type) == type \in {"Conv", "C3", "SPPF"}

\* the two heads wired to cutoff, or the exception raised while reading the
\* channel count of the layer after cutoff
_get_classification_heads(model, cutoff) ==
    LET at == IF PyIndex(model, cutoff + 1).ok
              THEN PyIndex(model, cutoff + 1).v.type ELSE "none"
        f  == FInt(cutoff)
    IN  IF ~PyIndex(model, cutoff + 1).ok
        THEN [err |-> "IndexError", heads |-> <<>>]
        ELSE IF ~HasInChannels(at)
        THEN [err |-> "AttributeError", heads |-> <<>>]
        ELSE [err |-> "",
              heads |-> <<[i |-> StrId("c_pitch"), f |-> f,
                           type |-> "Classify"],
                          [i |-> StrId("c_theta"), f |-> f,
                           type |-> "Classify"]>>]

\* variant: the slice stops one layer early
Truncate_short(model, cutoff) == PyPrefix(model, cutoff)

\* _from_detection_model: the layers the heads are appended to
Truncate(model, cutoff) == PyPrefix(model, cutoff + 1)

\* variant: the multi-task model drops the layers after the cutoff too
Branch_truncating(model, cutoff) == PyPrefix(model, cutoff + 1)

\* _add_classification_heads: every layer stays, the heads are appended
Branch(model, cutoff) == model

EmptyNet == [cls |-> "", model |-> <<>>, save |-> {}, task |-> "",
             cutoff |-> 0, has_cutoff |-> FALSE]

IdleCall == [pc |-> "idle", method |-> "", input |-> None, k |-> 0,
             x |-> None, y |-> <<>>, x_pitch |-> None, x_theta |-> None,
             computed |-> {}, fed_none |-> FALSE, err |-> "",
             result |-> [slots |-> {}, det |-> None, pitch |-> None,
                         theta |-> None]]

ExecInit ==
    /\ \E cls \in Classes, w \in 1..Len(Artifacts) :
         /\ \E c \in {NoCutoffArg} \cup
                     {[given |-> TRUE, v |-> v] : v \in 0..MaxCutoff},
               t \in (IF MultiTask(cls) THEN Tasks ELSE {"both"}) :
              args = [cls |-> cls, weights |-> w, cutoff |-> c, task |-> t]
         /\ loaded = Artifacts[w]
    /\ net = EmptyNet
    /\ asm_pc = "new"
    /\ calls = [c \in Callers |-> IdleCall]

ExecOff ==
    /\ args = [cls |-> "", weights |-> 0, cutoff |-> NoCutoffArg, task |-> ""]
    /\ loaded = [model |-> <<>>, save |-> {}]
    /\ net = EmptyNet
    /\ asm_pc = "off"
    /\ calls = [c \in Callers |-> IdleCall]

\* __init__ of HorizonModel / Hydra / MultiTaskModel on a DetectionModel
Construct ==
    /\ asm_pc = "new"
    /\ LET found  == _find_cutoff(loaded.model)
           cutoff == IF args.cutoff.given THEN args.cutoff.v ELSE found.v
           hd     == _get_classification_heads(loaded.model, cutoff)
           body   == IF MultiTask(args.cls) THEN Branch(loaded.model, cutoff)
                     ELSE Truncate(loaded.model, cutoff)
           \* self.cutoff is assigned in models/custom.py only
           attr   == args.cls \in {"custom.HorizonModel", "custom.Hydra"}
       IN  IF ~args.cutoff.given /\ ~found.ok
           THEN /\ asm_pc' = "ValueError"
                /\ UNCHANGED <<net, loaded>>
           ELSE IF hd.err # ""
           THEN /\ asm_pc' = hd.err
                /\ UNCHANGED <<net, loaded>>
           ELSE /\ asm_pc' = "built"
                /\ loaded' = [model |-> body \o hd.heads,
                              save |-> loaded.save \cup {cutoff}]
                /\ net' = [cls |-> args.cls,
                           model |-> body \o hd.heads,
                           save |-> loaded.save \cup {cutoff},
                           task |-> args.task,
                           cutoff |-> cutoff,
                           has_cutoff |-> attr]
    /\ UNCHANGED <<args, calls>>
    /\ UNCHANGED <<nmsVars, geoVars, v5Vars, danVars, ahoyVars>>


----------------------------------------------------------------------------
(* Forward execution: _forward_once, _horizon_once, _detect_once, forward *)

\* variant: every task runs the loop of the 'both' mode
MethodOf_forward_only(cls, task) == "_forward_once"

\* forward(): the loop the call runs
MethodOf(cls, task) ==
    IF ~MultiTask(cls) THEN "_forward_once"
    ELSE IF task = "detection" THEN "_detect_once"
    ELSE IF task = "horizon" THEN "_horizon_once"
    ELSE "_forward_once"

\* variant: the cache is one list shared by the callers
NewCache_shared(c) ==
    IF \E d \in Callers : d # c
    THEN calls[CHOOSE d \in Callers : d # c].y ELSE <<>>

\* y = [] at the head of every loop function
NewCache(c) == <<>>

\* variant: the tail beyond the cutoff is not skipped
Skips_no_cutoff(method, m) ==
    method = "_detect_once" /\ m.type = "Classify"

\* the `continue` guards at the top of the loop body
Skips(method, m) ==
    \/ method = "_horizon_once" /\ IsInt(m.i) /\ m.i.n > net.cutoff
    \/ method = "_detect_once" /\ m.type = "Classify"

\* [x if j == -1 else y[j] for j in m.f]
GatherOk(l, y) == \A n \in 1..Len(l) : l[n] = 0 - 1 \/ PyIndex(y, l[n]).ok
Gather(l, x, y) ==
    [n \in 1..Len(l) |-> IF l[n] = 0 - 1 THEN x ELSE PyIndex(y, l[n]).v]

\* the input of node m: ok = FALSE is an IndexError, has_none tells that
\* None (an output the cache did not keep) is part of the input
ResolveInput(m, x, y) ==
    IF m.f = FPrev THEN [ok |-> TRUE, v |-> x, has_none |-> x = None]
    ELSE IF m.f.int
    THEN [ok |-> PyIndex(y, m.f.v).ok, v |-> PyIndex(y, m.f.v).v,
          has_none |-> PyIndex(y, m.f.v).v = None]
    ELSE [ok |-> GatherOk(m.f.l, y),
          v |-> ListVal(Gather(m.f.l, x, y)),
          has_none |-> \E n \in 1..Len(m.f.l) : Gather(m.f.l, x, y)[n] = None]

\* variant: only retained outputs are appended to the cache
CacheAppend_retained_only(y, m, out) ==
    IF IsInt(m.i) /\ m.i.n \in net.save THEN Append(y, out) ELSE y

\* y.append(x if m.i in self.save else None)
CacheAppend(y, m, out) ==
    Append(y, IF IsInt(m.i) /\ m.i.n \in net.save THEN out ELSE None)

\* one iteration of the loop on node m, from frame fr
Body(method, fr, m) ==
    IF method = "_horizon_once" /\ IsInt(m.i) /\ ~net.has_cutoff
    THEN [fr EXCEPT !.err = "AttributeError"]
    ELSE IF Skips(method, m) THEN fr
    ELSE LET inp == ResolveInput(m, fr.x, fr.y)
             out == Forward(m, inp.v)
         IN  IF ~inp.ok THEN [fr EXCEPT !.err = "IndexError"]
             ELSE IF inp.has_none
             THEN \* the node is called on None and raises
                  [fr EXCEPT !.x = inp.v, !.fed_none = TRUE,
                             !.err = "TypeError"]
             ELSE IF method # "_detect_once" /\ m.type = "Classify"
                     /\ m.i.str = "c_pitch"
             THEN [fr EXCEPT !.x = inp.v, !.x_pitch = out,
                             !.computed = @ \cup {NodeTok(m)}]
             ELSE IF method # "_detect_once" /\ m.type = "Classify"
                     /\ m.i.str = "c_theta"
             THEN [fr EXCEPT !.x = inp.v, !.x_theta = out,
                             !.computed = @ \cup {NodeTok(m)}]
             ELSE [fr EXCEPT !.x = out,
                             !.y = CacheAppend(@, m, out),
                             !.computed = @ \cup {NodeTok(m)}]

\* variant: every loop function returns (x, x_pitch, x_theta)
ReturnValue_all(cls, method, fr) ==
    [slots |-> {"det", "pitch", "theta"}, det |-> fr.x,
     pitch |-> fr.x_pitch, theta |-> fr.x_theta]

\* the return statement of the loop function
ReturnValue(cls, method, fr) ==
    IF method = "_detect_once"
    THEN [slots |-> {"det"}, det |-> fr.x, pitch |-> None, theta |-> None]
    ELSE IF method = "_forward_once" /\ cls = "custom.Hydra"
    THEN [slots |-> {"det", "pitch", "theta"}, det |-> fr.x,
          pitch |-> fr.x_pitch, theta |-> fr.x_theta]
    ELSE [slots |-> {"pitch", "theta"}, det |-> None,
          pitch |-> fr.x_pitch, theta |-> fr.x_theta]

NewFrame(c, method, x) ==
    [IdleCall EXCEPT !.pc = "loop", !.method = method, !.input = x,
                     !.k = 1, !.x = x, !.y = NewCache(c)]

\* a caller enters forward(x)
call_begin(c) ==
    /\ asm_pc = "built"
    /\ calls[c].pc # "loop"
    /\ \E x \in Inputs :
         calls' = [calls EXCEPT
                     ![c] = NewFrame(c, MethodOf(net.cls, net.task), x)]
    /\ UNCHANGED <<args, loaded, net, asm_pc>>
    /\ UNCHANGED <<nmsVars, geoVars, v5Vars, danVars, ahoyVars>>

\* the loop advances by one node
call_step(c) ==
    /\ calls[c].pc = "loop"
    /\ calls[c].k <= Len(net.model)
    /\ LET fr == Body(calls[c].method, calls[c], net.model[calls[c].k])
       IN  calls' = [calls EXCEPT
                       ![c] = IF fr.err # "" THEN [fr EXCEPT !.pc = "raised"]
                              ELSE [fr EXCEPT !.k = @ + 1]]
    /\ UNCHANGED <<args, loaded, net, asm_pc>>
    /\ UNCHANGED <<nmsVars, geoVars, v5Vars, danVars, ahoyVars>>

\* the loop is over and the function returns
call_return(c) ==
    /\ calls[c].pc = "loop"
    /\ calls[c].k > Len(net.model)
    /\ calls' = [calls EXCEPT
                   ![c].pc = "done",
                   ![c].result = ReturnValue(net.cls, calls[c].method,
                                             calls[c])]
    /\ UNCHANGED <<args, loaded, net, asm_pc>>
    /\ UNCHANGED <<nmsVars, geoVars, v5Vars, danVars, ahoyVars>>

Init == ExecInit /\ NmsOff /\ GeoOff /\ V5Off /\ DanOff /\ AhoyOff

Next ==
    \/ Construct
    \/ \E c \in Callers : call_begin(c)
    \/ \E c \in Callers : call_step(c)
    \/ \E c \in Callers : call_return(c)

Spec == Init /\ [][Next]_vars

InitNms == NmsInit /\ ExecOff /\ GeoOff /\ V5Off /\ DanOff /\ AhoyOff

SpecNms == InitNms /\ [][NmsNext]_vars

\* nms runs to its end once called: no step of it waits for anything
SpecNmsFair == InitNms /\ [][NmsNext]_vars /\ WF_vars(NmsNext)

InitGeo == GeoInit /\ NmsOff /\ ExecOff /\ V5Off /\ DanOff /\ AhoyOff

SpecGeo == InitGeo /\ [][GeoNext]_vars

InitV5 == V5Init /\ NmsOff /\ ExecOff /\ GeoOff /\ DanOff /\ AhoyOff

SpecV5 == InitV5 /\ [][V5Next]_vars

InitDan == DanInit /\ NmsOff /\ ExecOff /\ GeoOff /\ V5Off /\ AhoyOff

SpecDan == InitDan /\ [][DanNext]_vars

InitAhoy == AhoyInit /\ NmsOff /\ ExecOff /\ GeoOff /\ V5Off /\ DanOff

SpecAhoy == InitAhoy /\ [][AhoyNext]_vars

\* one whole loop run in isolation, started from frame fr at node k
RECURSIVE RunFrom(_, _, _)
RunFrom(method, fr, k) ==
    IF fr.err # "" THEN [fr EXCEPT !.pc = "raised"]
    ELSE IF k > Len(net.model)
    THEN [fr EXCEPT !.pc = "done", !.k = k,
                    !.result = ReturnValue(net.cls, method, fr)]
    ELSE LET nx == Body(method, fr, net.model[k])
         IN  RunFrom(method, IF nx.err # "" THEN nx ELSE [nx EXCEPT !.k = k + 1],
                     k + 1)

Run(method, x) ==
    RunFrom(method, [IdleCall EXCEPT !.pc = "loop", !.method = method,
                                     !.input = x, !.k = 1, !.x = x], 1)

\* the loop of the detection model the artifact was saved from, on graph g:
\* every node runs, its output is the running value and is cached if retained
RECURSIVE BaseDetectFrom(_, _, _, _)
BaseDetectFrom(g, x, y, k) ==
    IF k > Len(g.model) THEN [ok |-> TRUE, x |-> x]
    ELSE LET m   == g.model[k]
             inp == ResolveInput(m, x, y)
             out == Forward(m, inp.v)
         IN  IF ~inp.ok \/ inp.has_none THEN [ok |-> FALSE, x |-> None]
             ELSE BaseDetectFrom(g, out,
                                 Append(y, IF m.i.n \in g.save
                                           THEN out ELSE None),
                                 k + 1)

BaseDetect(g, x) == BaseDetectFrom(g, x, <<>>, 1)

----------------------------------------------------------------------------
(* Reference notions used by the nms claims *)

\* inclusive pixel area (x2-x1+1)*(y2-y1+1)
InclusiveArea(b) == (b[3] - b[1] + 1) * (b[4] - b[2] + 1)

\* inclusive-pixel IoU of a and b exceeds th
RefIoUGreater(a, b, th) ==
    LET inter == intersection_area(a, b)
        union == InclusiveArea(a) + InclusiveArea(b) - inter
    IN  inter * th[2] > th[1] * union

\* position of box j in the initial descending order is not recoverable after
\* the loop, so "higher score" is read off the scores (ties count as higher)
HigherOrEqual(k, j) == k # j /\ scores[k] >= scores[j]

MaxScoreOf(s) == CHOOSE v \in SeqToSet(s) : \A u \in SeqToSet(s) : v >= u

----------------------------------------------------------------------------
(* Claims about nms, checked under SpecNms *)

\* C2: nms performs full greedy suppression: when it returns, every box is
\* either marked kept or has IoU > iou_thresh with a kept box of higher (or
\* equal) score; the last box left in the candidate order is no exception.
C2_FullGreedySuppression ==
    nms_pc = "done" =>
        \A j \in 1..Len(scores) :
            \/ keep[j]
            \/ \E k \in 1..Len(scores) :
                 /\ keep[k]
                 /\ HigherOrEqual(k, j)
                 /\ RefIoUGreater(bboxes[k], bboxes[j], iou_thresh)

\* C3: for every non-empty input, one box included, the returned keep mask
\* marks a box of the globally highest score as kept.
C3_HighestScoreKept ==
    (nms_pc = "done" /\ Len(scores) >= 1) =>
        \E j \in 1..Len(scores) : keep[j] /\ scores[j] = MaxScoreOf(scores)

\* C4: after class-agnostic nms no two kept boxes have inclusive-pixel
\* IoU greater than iou_thresh.
C4_NoKeptPairOverlaps ==
    (nms_pc = "done" /\ ~classes.given) =>
        \A j, k \in 1..Len(scores) :
            (j # k /\ keep[j] /\ keep[k]) =>
                ~RefIoUGreater(bboxes[j], bboxes[k], iou_thresh)

\* C5: with a class array and two or more boxes the call completes (it never
\* raises), and a box is dropped by a selected box only if their IoU exceeds
\* iou_thresh and both have the same class.
C5_ClassAwareCompletes ==
    (classes.given /\ Len(scores) >= 2) =>
        /\ nms_pc # "ValueError"
        /\ \A j \in 1..Len(removed_by) :
             removed_by[j] # 0 =>
                /\ classes.arr[j] = classes.arr[removed_by[j]]
                /\ ~OvrLeq(iou(bboxes[removed_by[j]], bboxes[j],
                               areas(bboxes[removed_by[j]]), areas(bboxes[j])),
                           iou_thresh)

----------------------------------------------------------------------------
(* Claims about assembly and forward execution, checked under Spec *)

Finished(c) == calls[c].pc = "done"
Heads == {100, 101}

\* C1: in 'both' mode the call returns all three results, and the detection
\* output is the output of the detection tail, the value _detect_once
\* returns for the same graph and input.
C1_BothReturnsDetectionTail ==
    \A c \in Callers :
        (Finished(c) /\ MultiTask(net.cls) /\ net.task = "both") =>
            /\ calls[c].result.slots = {"det", "pitch", "theta"}
            /\ calls[c].result.det =
                 Run("_detect_once", calls[c].input).result.det

\* C6: a detection-task call never fills the pitch or theta slot and returns
\* the detection output alone; a horizon-task call returns the (pitch, theta)
\* pair alone.
C6_SlotsMatchTask ==
    \A c \in Callers :
        /\ calls[c].method = "_detect_once" =>
              /\ calls[c].x_pitch = None /\ calls[c].x_theta = None
              /\ Finished(c) => /\ calls[c].result.slots = {"det"}
                                /\ calls[c].result.pitch = None
                                /\ calls[c].result.theta = None
        /\ (calls[c].method = "_horizon_once" /\ Finished(c)) =>
              /\ calls[c].result.slots = {"pitch", "theta"}
              /\ calls[c].result.det = None

C6_Witness ==
    \E c \in Callers :
        /\ Finished(c) /\ calls[c].method = "_horizon_once"
        /\ calls[c].result.pitch # None /\ calls[c].result.theta # None

\* C7: a horizon-only call (the truncated HorizonModel graph, or Hydra with
\* task 'horizon') computes only nodes at positions 0..cutoff and the
\* Classify heads.
C7_NothingBeyondCutoff ==
    \A c \in Callers :
        (calls[c].method = "_horizon_once" \/
         (calls[c].method = "_forward_once" /\ ~MultiTask(net.cls))) =>
            \A t \in calls[c].computed : t \in Heads \/ t <= net.cutoff

C7_Witness ==
    \E c \in Callers :
        /\ Finished(c) /\ calls[c].method = "_horizon_once"
        /\ \E p \in 1..Len(net.model) :
             IsInt(net.model[p].i) /\ net.model[p].i.n > net.cutoff
        /\ Heads \subseteq calls[c].computed
        /\ net.cutoff \in calls[c].computed

\* C8: a node whose single back-reference names a position whose output is
\* not in the cache is never computed on the absent value.
C8_AbsentReferenceNeverComputed ==
    \A c \in Callers :
        ~ /\ calls[c].fed_none
          /\ calls[c].k \in 1..Len(net.model)
          /\ net.model[calls[c].k].f.int
          /\ net.model[calls[c].k].f # FPrev

\* C9: every call starts with an empty cache, and its outcome is the outcome
\* of the same loop run alone on the same graph and input, whatever the other
\* callers do meanwhile or did before.
C9_CallScopedCache ==
    \A c \in Callers :
        /\ (calls[c].pc = "loop" /\ calls[c].k = 1) => calls[c].y = <<>>
        /\ calls[c].pc \in {"done", "raised"} =>
             LET alone == Run(calls[c].method, calls[c].input)
             IN  /\ calls[c].pc = alone.pc
                 /\ calls[c].err = alone.err
                 /\ calls[c].result = alone.result

C9_Witness ==
    \E c, d \in Callers :
        /\ c # d
        /\ Finished(c)
        /\ calls[d].pc = "loop" /\ calls[d].k > 1 /\ calls[d].y # <<>>
        /\ calls[d].input # calls[c].input

LandmarkPositions(model) == {p \in 1..Len(model) : model[p].type = "SPPF"}

----------------------------------------------------------------------------
(* Claims about the assembled graph, checked under Spec *)

Base == Artifacts[args.weights]

HeadsAt(cutoff) ==
    <<[i |-> StrId("c_pitch"), f |-> FInt(cutoff), type |-> "Classify"],
      [i |-> StrId("c_theta"), f |-> FInt(cutoff), type |-> "Classify"]>>

\* positions some node of the graph reads through its f
Referenced(model) ==
    {j \in 0..Len(model) :
        \E p \in 1..Len(model) :
            \/ model[p].f.int /\ model[p].f.v = j
            \/ ~model[p].f.int /\ \E n \in 1..Len(model[p].f.l) :
                                     model[p].f.l[n] = j}

\* the artifact keeps the LayerGraph invariant: save = referenced positions
WellFormed(g) == g.save = Referenced(g.model)

\* C11: truncating assembly yields exactly the base nodes 0..cutoff in their
\* order, then the pitch head and the theta head; no later node remains and
\* the heads read the cutoff the truncation used.
C11_TruncatedGraph ==
    (asm_pc = "built" /\ ~MultiTask(net.cls)) =>
        /\ net.model = SubSeq(Base.model, 1, net.cutoff + 1)
                          \o HeadsAt(net.cutoff)
        /\ Len(net.model) = net.cutoff + 1 + 2
        /\ \A p \in 1..Len(net.model) :
             IsInt(net.model[p].i) => net.model[p].i.n <= net.cutoff

C11_Witness ==
    /\ asm_pc = "built" /\ ~MultiTask(net.cls)
    /\ net.cutoff >= 1
    /\ Len(Base.model) > net.cutoff + 2

\* C12: branching assembly keeps every original node at its position with
\* its wiring and appends exactly the two heads after the last one.
C12_BranchedGraph ==
    (asm_pc = "built" /\ MultiTask(net.cls)) =>
        /\ net.model = Base.model \o HeadsAt(net.cutoff)
        /\ \A p \in 1..Len(Base.model) :
             net.model[p] = Base.model[p] /\ net.model[p].i.n = p - 1

C12_Witness ==
    /\ asm_pc = "built" /\ MultiTask(net.cls)
    /\ Len(Base.model) > net.cutoff + 2

\* C13: assembly does not mutate the loaded base graph: its node sequence
\* and retain set are after the call what they were before.
C13_BaseGraphUntouched ==
    asm_pc # "new" => loaded = Base

\* C14: in every assembled graph (from a well-formed base) the retain set is
\* exactly the set of positions some node reads.
C14_RetainSetExact ==
    (asm_pc = "built" /\ WellFormed(Base)) =>
        net.save = Referenced(net.model)

\* C20: a Classify step changes neither the running value nor the cache.
C20_ClassifyLeavesRunningValue ==
    [][\A c \in Callers :
         (/\ calls[c].pc = "loop"
          /\ calls[c].k \in 1..Len(net.model)
          /\ net.model[calls[c].k].type = "Classify"
          /\ calls[c].method # "_detect_once"
          /\ calls'[c].pc = "loop"
          /\ calls'[c].k = calls[c].k + 1)
         => (calls'[c].x = calls[c].x /\ calls'[c].y = calls[c].y)]_vars

----------------------------------------------------------------------------
(* Claims about the box geometry, checked under SpecGeo *)

\* C15: for every valid box b = (cx, cy, w, h),
\* xyxy_to_xywh(cxcywh_to_xyxy(b)) equals b in all four components.
C15_RoundTrip ==
    (g_op = "roundtrip" /\ g_pc = "done") => g_box = g_in

\* C16: after scale_boxes, and after clip_boxes alone, every x coordinate
\* lies in [0, to_width] and every y coordinate in [0, to_height].
C16_ClippedToShape ==
    (g_op \in {"scale", "clip"} /\ g_pc = "done") =>
        \A r \in 1..Len(g_box) :
            /\ \A k \in {1, 3} : /\ RLeq(RInt(0), g_box[r][k])
                                 /\ RLeq(g_box[r][k], RInt(g_to[2]))
            /\ \A k \in {2, 4} : /\ RLeq(RInt(0), g_box[r][k])
                                 /\ RLeq(g_box[r][k], RInt(g_to[1]))

C16_Witness ==
    /\ g_op = "scale" /\ g_pc = "done"
    /\ Len(g_box) = 1
    /\ g_to[1] # g_to[2]
    /\ g_in[1][1] = RInt(0 - 1)
    /\ g_in[1][3] = RInt(MaxPix + 1)
    /\ g_box[1][1] = RInt(0)
    /\ g_box[1][3] = RInt(g_to[2])

----------------------------------------------------------------------------
(* Claims about AHOYv5, checked under SpecV5 *)

LastMode == presented[Len(presented)]

\* C17: presentation in qa format without a class map (None or empty) raises
\* for any detections, one image without rows included, before any box is
\* normalised or any entry produced: the detections stay as they were.
C17_QaNeedsClassMap ==
    [][(/\ Len(presented') = Len(presented) + 1
        /\ presented'[Len(presented')] = "qa"
        /\ cls_map # "map")
       => (/\ v5_pc' = "ValueError"
           /\ dets' = dets
           /\ v5_out' = v5_out)]_vars

C17_Witness ==
    /\ v5_pc = "ValueError"
    /\ presented # <<>> /\ LastMode = "qa"
    /\ cls_map = "empty"
    /\ dets # <<>> /\ dets[1] # <<>>
    /\ v5_args.orig_shape = <<2, 2>>

\* C18: a batch that is not a rank-4 array is rejected before preprocessing,
\* inference or postprocessing is attempted, on detect, predict and the
\* direct call.
C18_BadBatchRejectedFirst ==
    (/\ v5_args.entry \in {"detect", "predict", "call"}
     /\ ~(v5_args.array /\ v5_args.ndim = 4)) =>
        /\ stages = {}
        /\ v5_pc \in {"enter", "ValueError", "AssertionError",
                      "AttributeError"}

----------------------------------------------------------------------------
(* Claim about DAN, checked under SpecDan *)

\* C19: constructing the ensemble raises exactly when the two models differ
\* in device or in fp16; when it succeeds the ensemble records the device and
\* the precision the two models share.
C19_EnsembleNeedsMatchingModels ==
    dan_pc # "new" =>
        /\ dan_pc = "ValueError" <=>
              (model_a.device # model_b.device \/ model_a.fp16 # model_b.fp16)
        /\ dan_pc = "built" <=>
              (model_a.device = model_b.device /\ model_a.fp16 = model_b.fp16)
        /\ dan_pc = "built" =>
              /\ {"device", "fp16"} \subseteq dan.attrs
              /\ dan.device = model_a.device /\ dan.device = model_b.device
              /\ dan.fp16 = model_a.fp16 /\ dan.fp16 = model_b.fp16

C19_Witness ==
    /\ dan_pc = "ValueError"
    /\ model_a.device = model_b.device
    /\ model_a.fp16 # model_b.fp16

----------------------------------------------------------------------------
(* Further claims about assembly and forward execution, checked under Spec *)

IsOutputOf(v, k) == v # None /\ v[1] = k

\* C22: in every assembled graph both heads read the cutoff position only and
\* the cutoff is retained; whenever a head has run, the cache holds the output
\* of the node at the cutoff position and the head was computed on it, so
\* both heads receive the same value.
C22_HeadsReadCutoffOutput ==
    /\ asm_pc = "built" =>
          /\ net.cutoff \in net.save
          /\ \A p \in 1..Len(net.model) :
               net.model[p].type = "Classify" =>
                   net.model[p].f = FInt(net.cutoff)
    /\ \A c \in Callers :
          /\ calls[c].x_pitch # None =>
                /\ net.cutoff \in 0..(Len(calls[c].y) - 1)
                /\ IsOutputOf(calls[c].y[net.cutoff + 1], net.cutoff)
                /\ calls[c].x_pitch =
                     <<100>> \o calls[c].y[net.cutoff + 1] \o <<0 - 4>>
          /\ calls[c].x_theta # None =>
                /\ net.cutoff \in 0..(Len(calls[c].y) - 1)
                /\ IsOutputOf(calls[c].y[net.cutoff + 1], net.cutoff)
                /\ calls[c].x_theta =
                     <<101>> \o calls[c].y[net.cutoff + 1] \o <<0 - 4>>

\* C24: at every step of every loop function the cache is aligned with the
\* graph: entry k is None exactly when position k is not retained, and
\* otherwise it is the output of the node at position k; skipped nodes (the
\* tail beyond the cutoff, Classify nodes) and Classify nodes that run leave
\* no entry, so the cache never grows past the nodes gone through, and the
\* back-references of the node about to run find their entries.
C24_CacheAligned ==
    \A c \in Callers :
        /\ Len(calls[c].y) <= Len(net.model)
        /\ calls[c].pc = "loop" => Len(calls[c].y) <= calls[c].k - 1
        /\ \A j \in 1..Len(calls[c].y) :
             /\ net.model[j].i = IntId(j - 1)
             /\ calls[c].y[j] = None <=> (j - 1) \notin net.save
             /\ calls[c].y[j] # None => IsOutputOf(calls[c].y[j], j - 1)
        /\ (calls[c].pc = "loop" /\ calls[c].k <= Len(net.model)
            /\ ~Skips(calls[c].method, net.model[calls[c].k])) =>
              LET f == net.model[calls[c].k].f
                  refs == IF f.int THEN {f.v} ELSE SeqToSet(f.l)
              IN  \A j \in refs : j >= 0 => j < Len(calls[c].y)

C24_Witness ==
    \E c \in Callers :
        /\ Finished(c) /\ calls[c].method = "_horizon_once"
        /\ Len(calls[c].y) < Len(net.model) - 2
        /\ \E j \in 1..Len(calls[c].y) : calls[c].y[j] = None
        /\ \E j \in 1..Len(calls[c].y) : calls[c].y[j] # None

\* C25: on every multi-task model built from a detection graph a call with
\* task 'horizon' finds the cutoff attribute set by assembly and completes,
\* returning pitch logits and theta logits, neither of them None.
C25_HorizonCallCompletes ==
    \A c \in Callers :
        (/\ MultiTask(net.cls) /\ net.task = "horizon"
         /\ calls[c].pc \in {"done", "raised"}) =>
            /\ net.has_cutoff
            /\ Finished(c)
            /\ calls[c].result.slots = {"pitch", "theta"}
            /\ calls[c].result.pitch # None
            /\ calls[c].result.theta # None

\* C26: an assembled graph always has a cutoff that is a position of the
\* base graph with a node after it, 0 <= cutoff < length - 1, whether the
\* cutoff came from the landmark or from the argument; any other cutoff ends
\* construction with a configuration error (ValueError).
C26_CutoffIsValidPosition ==
    LET cutoff == IF args.cutoff.given THEN args.cutoff.v
                  ELSE _find_cutoff(Base.model).v
        valid  == 0 <= cutoff /\ cutoff < Len(Base.model) - 1
    IN  /\ asm_pc = "built" =>
              /\ 0 <= net.cutoff
              /\ net.cutoff < Len(Base.model) - 1
        /\ (asm_pc # "new" /\ ~valid) => asm_pc = "ValueError"

----------------------------------------------------------------------------
(* Further claims about nms, checked under SpecNms *)

\* C23: the IoU a round of nms compares with iou_thresh, of the selected box
\* and every remaining candidate, is the inclusive-pixel IoU (inclusive
\* intersection over inclusive areas minus intersection); it lies in [0, 1]
\* and is 1 for identical boxes.
C23_IoUIsInclusiveReference ==
    (nms_pc = "loop" /\ Len(order) > 1) =>
        \A k \in 2..Len(order) :
            LET a   == bboxes[order[1]]
                b   == bboxes[order[k]]
                ovr == iou(a, b, areas(a), areas(b))
            IN  /\ ovr.inter = intersection_area(a, b)
                /\ ovr.union = InclusiveArea(a) + InclusiveArea(b) - ovr.inter
                /\ ovr.union > 0
                /\ 0 <= ovr.inter /\ ovr.inter <= ovr.union
                /\ a = b => ovr.inter = ovr.union

\* C30: nms terminates on every input: the call returns or raises; a
\* selected box never stays in the candidate order, the rounds done plus the
\* candidates left never exceed the number of boxes, and the keep mask has
\* one entry per input box.
C30_NmsTerminates ==
    /\ <>(nms_pc \in {"done", "ValueError"})
    /\ [](nms_pc \in {"loop", "done", "ValueError"} =>
            /\ Len(keep) = Len(scores)
            /\ rounds <= Len(scores)
            /\ nms_pc # "ValueError" =>
                  /\ rounds + Len(order) <= Len(scores)
                  /\ \A k \in 1..Len(order) : ~keep[order[k]])

C30_Witness ==
    /\ nms_pc = "done"
    /\ Len(scores) = MaxBoxes
    /\ rounds = MaxBoxes - 1
    /\ Len(order) = 1

----------------------------------------------------------------------------
(* Further claim about AHOYv5, checked under SpecV5 *)

\* C27: presenting detections (to_mode, in tf, qa or raw mode) leaves the
\* per-image detection arrays it was given as they were, so a second
\* presentation starts from the same boxes.
C27_PresentationKeepsDetections ==
    [][Len(presented') = Len(presented) + 1 => dets' = dets]_vars

----------------------------------------------------------------------------
(* Claims about the AHOY hooks, checked under SpecAhoy *)

\* C28: after any sequence of the four hook methods at most one
\* preprocessing and one postprocessing hook is attached, the hooks table
\* names exactly the attached hooks, after remove_hooks none is attached,
\* after a register method its hook is attached, and a forward scales a
\* tensor input by 1/255 at most once.
C28_AtMostOneHookEach ==
    /\ Cardinality(Attached("pre")) <= 1
    /\ Cardinality(Attached("post")) <= 1
    /\ {a.id : a \in ah_attached} = {h.id : h \in ah_hooks}
    /\ \A h \in ah_hooks :
         [kind |-> IF h.key = "preprocessing" THEN "pre" ELSE "post",
          id |-> h.id] \in ah_attached
    /\ ah_pc = "remove_hooks" => ah_attached = {} /\ ah_hooks = {}
    /\ ah_pc \in {"register_preprocessing_hook", "register_io_hooks"} =>
          Cardinality(Attached("pre")) = 1
    /\ ah_pc \in {"register_postprocessing_hook", "register_io_hooks"} =>
          Cardinality(Attached("post")) = 1
    /\ ah_fwd.scaled <= 1

C28_Witness ==
    /\ ah_pc = "forward"
    /\ ah_next = MaxHandles
    /\ Cardinality(ah_attached) = 2
    /\ ah_fwd.tensor /\ ah_fwd.scaled = 1

\* C29: with the postprocessing hook attached, the pitch and theta outputs a
\* forward delivers mean the same (both raw logits, or both softmax
\* probabilities) as those the model delivers with the opposite fp16 setting,
\* and the detection output has the same structure.
C29_PostHookOnlyPrecision ==
    (ah_pc = "forward" /\ Attached("post") # {}) =>
        LET other == _postprocessing_hook(~ah_fp16,
                        RawOut(~ah_fp16, ah_fwd.out.objects.len))
        IN  /\ ah_fwd.out.pitch.softmax = other.pitch.softmax
            /\ ah_fwd.out.theta.softmax = other.theta.softmax
            /\ ah_fwd.out.objects.len = other.objects.len

====
